---- MODULE Spec2Model ----
(***************************************************************************)
(* A model of modules/curves.py: the date arithmetic (add_months,          *)
(* add_days), the Schedule of a swap leg, and the calibration loop of      *)
(* SolvedCurve / AdvancedCurve with the lazily cached sensitivity matrix   *)
(* grad_s_v.                                                               *)
(*                                                                         *)
(* Two specifications share the module.  SpecDates applies the pure date   *)
(* functions to inputs drawn from bounded sets.  Spec is the solver: one   *)
(* curve object ("self") on which the caller calls iterate() and reads     *)
(* grad_s_v, and the helper objects those calls build (base_solve,         *)
(* s_cv_fwd, s_cv_bck).                                                    *)
(***************************************************************************)
EXTENDS Integers, Sequences, FiniteSets

VARIABLES
    op,     \* SpecDates: the date function applied ("none" before it is)
    arg,    \* SpecDates: its arguments
    out,    \* SpecDates: its result
    curve,  \* Spec: the curve object the caller holds
    last,   \* Spec: the caller's last call: what it returned, the solves it ran and
            \*       the curve as it was when the call began (observer)
    hist    \* Spec: counts and snapshots over the whole run (observer)

vars == <<op, arg, out, curve, last, hist>>
dateVars == <<op, arg, out>>
solverVars == <<curve, last, hist>>

(***************************************************************************)
(* Bounds of the model.                                                    *)
(***************************************************************************)
FirstYear == 2019
NumYears == 2
MaxMonths == 14
MaxTenor == 7
MaxPeriod == 4
MaxN == 2
MaxM == 2
ValMax == 1
MaxIter == 2
LamCap == 2
MaxCells == 2

(***************************************************************************)
(* Dates: datetime(year, month, day) and timedelta arithmetic.             *)
(***************************************************************************)
IsLeap(y) == (y % 4 = 0) /\ ((y % 100 # 0) \/ (y % 400 = 0))

DaysInMonth(y, m) ==
    IF m = 2 THEN (IF IsLeap(y) THEN 29 ELSE 28)
    ELSE IF m \in {4, 6, 9, 11} THEN 30 ELSE 31

\* datetime(y, m, d) raises ValueError outside these ranges
ValidDate(y, m, d) ==
    /\ y >= 1 /\ y <= 9999
    /\ m >= 1 /\ m <= 12
    /\ d >= 1 /\ d <= DaysInMonth(y, m)

MkDate(y, m, d) == [year |-> y, month |-> m, day |-> d]

ValueError == [year |-> 0, month |-> 0, day |-> 0]

RECURSIVE DaysBeforeMonth(_, _)
DaysBeforeMonth(y, m) ==
    IF m = 1 THEN 0 ELSE DaysBeforeMonth(y, m - 1) + DaysInMonth(y, m - 1)

\* datetime.toordinal(): the day number, 0001-01-01 being day 1
ToOrdinal(dt) ==
    LET y1 == dt.year - 1
    IN  365 * y1 + (y1 \div 4) - (y1 \div 100) + (y1 \div 400)
        + DaysBeforeMonth(dt.year, dt.month) + dt.day

\* (a - b) / timedelta(days=1)
DaysBetween(a, b) == ToOrdinal(a) - ToOrdinal(b)

NextDay(dt) ==
    IF dt.day < DaysInMonth(dt.year, dt.month) THEN MkDate(dt.year, dt.month, dt.day + 1)
    ELSE IF dt.month < 12 THEN MkDate(dt.year, dt.month + 1, 1)
    ELSE MkDate(dt.year + 1, 1, 1)

PrevDay(dt) ==
    IF dt.day > 1 THEN MkDate(dt.year, dt.month, dt.day - 1)
    ELSE IF dt.month > 1
         THEN MkDate(dt.year, dt.month - 1, DaysInMonth(dt.year, dt.month - 1))
    ELSE MkDate(dt.year - 1, 12, 31)

\* start + timedelta(days=days)
RECURSIVE add_days(_, _)
add_days(start, days) ==
    IF days = 0 THEN start
    ELSE IF days > 0 THEN add_days(NextDay(start), days - 1)
    ELSE add_days(PrevDay(start), days + 1)

\* int(a / 12): Python's int() of a float truncates toward zero
IntTrunc12(a) == IF a >= 0 THEN a \div 12 ELSE -((-a) \div 12)

RECURSIVE add_months(_, _)
add_months(start, months) ==
    LET year_roll == IntTrunc12(start.month + months - 1)
        month0 == (start.month + months) % 12
        month == IF month0 = 0 THEN 12 ELSE month0
    IN  IF ValidDate(start.year + year_roll, month, start.day)
        THEN MkDate(start.year + year_roll, month, start.day)
        ELSE \* except ValueError: retry from the day before, same month
             IF ValidDate(start.year, start.month, start.day - 1)
             THEN add_months(MkDate(start.year, start.month, start.day - 1), months)
             ELSE ValueError

(***************************************************************************)
(* Schedule                                                                *)
(***************************************************************************)
DcfConv == 365

AddOp(days, start, k) == IF days THEN add_days(start, k) ELSE add_months(start, k)

\* math.ceil(tenor / period), period > 0
Ceil(tenor, period) == -((-tenor) \div period)

\* (end - start) / self.dcf_conv, kept as the exact quotient days / 365
Dcf(period_start, period_end) ==
    [days |-> DaysBetween(period_end, period_start), conv |-> DcfConv]

\* Schedule.__init__
Schedule(start, tenor, period, days) ==
    [days |-> days, start |-> start, end |-> AddOp(days, start, tenor),
     tenor |-> tenor, period |-> period, n_periods |-> Ceil(tenor, period)]

\* the body of the for loop of Schedule.data: the regular period from period_start
PeriodEndFromStart(sch, period_start, i) == AddOp(sch.days, sch.start, (i + 1) * sch.period)
PeriodEnd(sch, period_start, i) == AddOp(sch.days, period_start, sch.period)

\* Schedule.data: iterations i .. n_periods - 2 of the loop, then the final period
RECURSIVE ScheduleLoop(_, _, _, _)
ScheduleLoop(sch, i, period_start, schedule) ==
    IF i < sch.n_periods - 1
    THEN LET period_end == PeriodEnd(sch, period_start, i)
         IN  ScheduleLoop(sch, i + 1, period_end,
                 Append(schedule, <<period_start, period_end, Dcf(period_start, period_end)>>))
    ELSE Append(schedule, <<period_start, sch.end, Dcf(period_start, sch.end)>>)

ScheduleData(sch) == ScheduleLoop(sch, 0, sch.start, <<>>)

(***************************************************************************)
(* SpecDates: the date functions applied to bounded inputs.                *)
(***************************************************************************)
\* the days of the month the inputs use: ordinary days and every month end
StartDays == {1, 15, 28, 29, 30, 31}

StartDates ==
    UNION { { MkDate(y, m, d) : d \in { x \in StartDays : x <= DaysInMonth(y, m) } } :
            y \in FirstYear..(FirstYear + NumYears - 1), m \in 1..12 }

NoArg == [fn |-> "none", start |-> MkDate(1, 1, 1), tenor |-> 0, period |-> 1, days |-> FALSE]
NoOut == [ret |-> MkDate(1, 1, 1), n_periods |-> 0, data |-> <<>>]

AddMonthsInput(d, n) ==
    [fn |-> "add_months", start |-> d, tenor |-> n, period |-> 1, days |-> FALSE]
AddDaysInput(d, n) ==
    [fn |-> "add_days", start |-> d, tenor |-> n, period |-> 1, days |-> TRUE]
ScheduleInput(d, t, p, dy) ==
    [fn |-> "Schedule", start |-> d, tenor |-> t, period |-> p, days |-> dy]

\* the solver is not running under SpecDates
SolverOff == curve = <<>> /\ last = <<>> /\ hist = <<>>

InitDates ==
    /\ op = "none" /\ out = NoOut
    /\ \E d \in StartDates :
          \/ \E n \in (-MaxMonths)..MaxMonths : arg = AddMonthsInput(d, n)
          \/ \E n \in (-MaxTenor)..MaxTenor : arg = AddDaysInput(d, n)
          \/ \E t \in 1..MaxTenor, p \in 1..MaxPeriod, dy \in BOOLEAN :
                arg = ScheduleInput(d, t, p, dy)
    /\ SolverOff

CallAddMonths ==
    /\ op = "none" /\ arg.fn = "add_months"
    /\ op' = "add_months"
    /\ out' = [NoOut EXCEPT !.ret = add_months(arg.start, arg.tenor)]
    /\ UNCHANGED <<arg, solverVars>>

CallAddDays ==
    /\ op = "none" /\ arg.fn = "add_days"
    /\ op' = "add_days"
    /\ out' = [NoOut EXCEPT !.ret = add_days(arg.start, arg.tenor)]
    /\ UNCHANGED <<arg, solverVars>>

CallSchedule ==
    /\ op = "none" /\ arg.fn = "Schedule"
    /\ op' = "Schedule"
    /\ LET sch == Schedule(arg.start, arg.tenor, arg.period, arg.days)
       IN  out' = [ret |-> sch.end, n_periods |-> sch.n_periods, data |-> ScheduleData(sch)]
    /\ UNCHANGED <<arg, solverVars>>

NextDates == CallAddMonths \/ CallAddDays \/ CallSchedule

SpecDates == InitDates /\ [][NextDates]_vars

(***************************************************************************)
(* The solver.  Discount factors, quotes and objective values are          *)
(* quantised to integers: node values lie in Val, the objective is an      *)
(* integer, tol = 1e-10 and the sentinel f_prev = 1e10 are kept in the     *)
(* same order (Tol far below FPrevInit, no objective within Tol of the     *)
(* sentinel), and ds is one quantum of a quote.  The linear algebra of the *)
(* update steps is followed on array shapes; the values it returns are any *)
(* vector of node values, or an exception of np.linalg.solve.              *)
(***************************************************************************)
Tol == 3
FPrevInit == 10000
Ds == 1
\* lam is kept as its binary exponent: lam = 1000 * 2^e
LamInit == 0

Val == 0..ValMax
Algos == {"gradient_descent", "gauss_newton", "levenberg_marquardt"}
None == <<>>

RECURSIVE SumTo(_, _)
SumTo(F, k) == IF k = 0 THEN 0 ELSE F[k] + SumTo(F, k - 1)

\* ---- arrays, by shape <<rows, cols>> ------------------------------------
ShapeErr == <<0, 0>>
Transpose(a) == IF a = ShapeErr THEN ShapeErr ELSE <<a[2], a[1]>>
\* np.matmul of two 2-d arrays
MatMul(a, b) ==
    IF a = ShapeErr \/ b = ShapeErr \/ a[2] # b[1] THEN ShapeErr ELSE <<a[1], b[2]>>
\* elementwise + - * / with numpy broadcasting
BroadcastDim(x, y) == IF x = y THEN x ELSE IF x = 1 THEN y ELSE IF y = 1 THEN x ELSE 0
Broadcast(a, b) ==
    IF a = ShapeErr \/ b = ShapeErr \/ BroadcastDim(a[1], b[1]) = 0
       \/ BroadcastDim(a[2], b[2]) = 0
    THEN ShapeErr
    ELSE <<BroadcastDim(a[1], b[1]), BroadcastDim(a[2], b[2])>>
\* np.linalg.solve(A, b): A square, b with as many rows
LinSolve(A, b) ==
    IF A = ShapeErr \/ b = ShapeErr \/ A[1] # A[2] \/ b[1] # A[1] THEN ShapeErr ELSE b

\* ---- Curve / SolvedCurve / AdvancedCurve objects ------------------------
Values(nodes) == [i \in 1..Len(nodes) |-> nodes[i].v]
Keys(nodes) == [i \in 1..Len(nodes) |-> nodes[i].k]
Tail1(seq) == [i \in 1..(Len(seq) - 1) |-> seq[i + 1]]

\* SolvedCurve.__init__ (Curve.__init__ deep-copies the nodes; np.array copies
\* obj_rates into s; np.diag(w) is kept as its diagonal, None as <<>>)
SolvedCurve(nodes, swaps, obj_rates, algorithm, w) ==
    [kind |-> "SolvedCurve", nodes |-> nodes, swaps |-> swaps,
     obj_rates |-> obj_rates, algo |-> algorithm,
     n |-> Len(nodes) - 1, m |-> swaps, s |-> obj_rates, W |-> w, lam |-> LamInit,
     not_iterated |-> FALSE, grad_s_v_ |-> None,
     has_f |-> FALSE, r |-> <<>>, v |-> <<>>, f |-> 0,
     f_prev |-> 0, f_list |-> <<>>, ret |-> "none", v_1 |-> <<>>]

\* AdvancedCurve.__init__ (the knots t only feed the spline)
AdvancedCurve(nodes, swaps, obj_rates, algorithm, w) ==
    [SolvedCurve(nodes, swaps, obj_rates, algorithm, w) EXCEPT
        !.kind = "AdvancedCurve", !.not_iterated = TRUE]

\* type(self)(**kwargs)
NewLike(self, nodes, swaps, obj_rates, algorithm, w) ==
    IF self.kind = "AdvancedCurve"
    THEN AdvancedCurve(nodes, swaps, obj_rates, algorithm, w)
    ELSE SolvedCurve(nodes, swaps, obj_rates, algorithm, w)

\* Swap.rate(curve): a par rate read off the curve's node values; swap j ends at
\* node min(j, n) and starts at the anchor
SwapRate(j, nodes) ==
    LET e == IF j < Len(nodes) - 1 THEN j ELSE Len(nodes) - 1
    IN  nodes[1].v - nodes[e + 1].v

\* calculate_metrics up to the objective: r, v, x = r - s, then Wx needs W (m x m)
MetricsShape(o) ==
    LET x == Broadcast(<<o.m, 1>>, <<Len(o.s), 1>>)
        Wx == IF o.W = None THEN x ELSE MatMul(<<Len(o.W), Len(o.W)>>, x)
    IN  MatMul(Transpose(x), Wx)

Objective(o, r) ==
    LET sq == [j \in 1..o.m |-> (IF o.W = None THEN 1 ELSE o.W[j])
                                  * (r[j] - o.s[j]) * (r[j] - o.s[j])]
    IN  SumTo(sq, o.m)

\* calculate_metrics: r and v are assigned before the objective can raise
MetricsRV(o) ==
    [o EXCEPT !.r = [j \in 1..o.m |-> SwapRate(j, o.nodes)],
              !.v = Tail1(Values(o.nodes))]

calculate_metrics(o) ==
    LET o1 == MetricsRV(o)
    IN  [o1 EXCEPT !.f = Objective(o1, o1.r), !.has_f = TRUE]

\* shapes of J (n x m) and grad_v_f (n x 1)
ShapeJ(o) == <<o.n, o.m>>
ShapeGrad(o) == <<o.n, 1>>
ShapeW(o) == <<Len(o.W), Len(o.W)>>

\* update_step_gradient_descent: the shape of v_1
GradientDescentShape(o) ==
    LET y == MatMul(Transpose(ShapeJ(o)), ShapeGrad(o))
        num == MatMul(Transpose(y), Broadcast(<<o.m, 1>>, <<Len(o.s), 1>>))
        den == MatMul(Transpose(y), y)
        alpha == Broadcast(num, den)
    IN  IF alpha = ShapeErr THEN ShapeErr ELSE Broadcast(<<o.n, 1>>, ShapeGrad(o))

\* update_step_gauss_newton with the normal matrix built as J^T W J (m x m)
GaussNewtonShapeMxM(o) ==
    LET J == ShapeJ(o)
        A == MatMul(Transpose(J), IF o.W = None THEN J ELSE MatMul(ShapeW(o), J))
        delta == LinSolve(A, ShapeGrad(o))
    IN  Broadcast(<<o.n, 1>>, delta)

\* update_step_gauss_newton: A = J (W J^T), delta = solve(A, b), v_1 = v + delta
GaussNewtonShape(o) ==
    LET J == ShapeJ(o)
        J_T == Transpose(J)
        A == MatMul(J, IF o.W = None THEN J_T ELSE MatMul(ShapeW(o), J_T))
        delta == LinSolve(A, ShapeGrad(o))
    IN  Broadcast(<<o.n, 1>>, delta)

\* update_step_levenberg_marquardt: A = J (W J^T) + lam * eye(n)
LevenbergMarquardtShape(o) ==
    LET J == ShapeJ(o)
        J_T == Transpose(J)
        WJ_T == IF o.W = None THEN J_T ELSE MatMul(ShapeW(o), J_T)
        A == Broadcast(MatMul(J, WJ_T), <<J[1], J[1]>>)
        delta == LinSolve(A, ShapeGrad(o))
    IN  Broadcast(<<o.n, 1>>, delta)

\* getattr(self, f"update_step_{self.algo}")(): the shape of what it returns
UpdateShape(o) ==
    IF o.algo = "gradient_descent" THEN GradientDescentShape(o)
    ELSE IF o.algo = "gauss_newton" THEN GaussNewtonShape(o)
    ELSE LevenbergMarquardtShape(o)

\* self.lam *= 2 if self.f_prev < self.f.real else 0.5 (saturating, as a float does)
Clamp(e) == IF e > LamCap THEN LamCap ELSE IF e < -LamCap THEN -LamCap ELSE e
LamStep(o) ==
    IF o.algo = "levenberg_marquardt"
    THEN [o EXCEPT !.lam = Clamp(IF o.f_prev < o.f THEN o.lam + 1 ELSE o.lam - 1)]
    ELSE o

\* the exception a numerical failure of the update step raises
NumericError(o) ==
    IF o.algo = "gradient_descent" THEN "ZeroDivisionError" ELSE "LinAlgError"

\* the convergence test of iterate, accepting any change below tol
ConvergedAnyChange(f, f_prev, tol) == (f_prev - f) < tol
\* the convergence test of iterate
Converged(f, f_prev, tol) == f < f_prev /\ (f_prev - f) < tol

\* the write-back loop of iterate without its skip of node 0
WriteNodesFromAnchor(nodes, v_1) ==
    [i \in 1..Len(nodes) |->
        [nodes[i] EXCEPT !.v = IF i = 1 THEN v_1[1] ELSE v_1[i - 1]]]
\* the write-back loop of iterate: nodes 1..n take v_1, node 0 is skipped
WriteNodes(nodes, v_1) ==
    [i \in 1..Len(nodes) |-> IF i = 1 THEN nodes[i] ELSE [nodes[i] EXCEPT !.v = v_1[i - 1]]]

\* the first line of iterate
IterBegin(o) ==
    [o EXCEPT !.ret = "none", !.f_prev = FPrevInit, !.f_list = <<>>, !.v_1 = <<>>]

(***************************************************************************)
(* Spec: the caller's calls on one curve.  The program is single-threaded  *)
(* and synchronous, so every call of the caller is one action; the solves  *)
(* a call runs are the set-valued operators below, one element per run the *)
(* update steps can produce.                                               *)
(***************************************************************************)
\* iterate's default max_i (2000 in the source) is the model's iteration bound
DefaultMaxI == MaxIter

NoExc == [err |-> "none", site |-> "none"]
Exc(err, site) == [err |-> err, site |-> site]

\* the vectors an update step can return, given the shape of v_1
UpdateResults(sh) == [1..sh[1] -> Val]

\* the rest of a pass of the loop after the update step returned v_1
Updated(o, v_1) ==
    [o EXCEPT !.v_1 = v_1, !.nodes = WriteNodes(o.nodes, v_1), !.f_prev = o.f]

\* calculate_metrics and the append to f_list
Measured(o) == LET o1 == calculate_metrics(o) IN [o1 EXCEPT !.f_list = Append(@, o1.f)]

\* the for loop of iterate with `left` passes to go: every [o, exc] it can end in
RECURSIVE IterLoop(_, _)
IterLoop(o, left) ==
    IF left = 0 THEN {[o |-> o, exc |-> NoExc]}
    ELSE IF MetricsShape(o) = ShapeErr
    THEN {[o |-> MetricsRV(o), exc |-> Exc("ValueError", "calculate_metrics")]}
    ELSE LET o1 == Measured(o)
         IN  IF Converged(o1.f, o1.f_prev, Tol)
             THEN {[o |-> [o1 EXCEPT !.ret = "tolerance"], exc |-> NoExc]}
             ELSE LET sh == UpdateShape(o1)
                      o2 == LamStep(o1)
                  IN  IF sh = ShapeErr
                      THEN {[o |-> o2, exc |-> Exc("ValueError", "update_step")]}
                      ELSE {[o |-> o2, exc |-> Exc(NumericError(o1), "update_step")]}
                           \cup UNION { IterLoop(Updated(o2, v_1), left - 1) :
                                        v_1 \in UpdateResults(sh) }

\* the last two lines of iterate: self.lam = 1000, then the status string, which
\* reads self.f when the loop did not break
IterEnd(x) ==
    IF x.exc # NoExc THEN x
    ELSE LET o1 == [x.o EXCEPT !.lam = LamInit]
         IN  IF o1.ret = "none" /\ ~o1.has_f
             THEN [o |-> o1, exc |-> Exc("AttributeError", "iterate")]
             ELSE [o |-> [o1 EXCEPT !.ret = IF @ = "none" THEN "max" ELSE @],
                   exc |-> NoExc]

\* SolvedCurve.iterate(max_i)
SolvedIterate(o, max_i) == { IterEnd(x) : x \in IterLoop(IterBegin(o), max_i) }

\* what a call records of a solve it ran (observer)
Run(who, j, o0, x) ==
    [who |-> who, round |-> j, algo |-> o0.algo, nodes_in |-> o0.nodes, s_in |-> o0.s,
     v_out |-> x.o.v, nodes_out |-> x.o.nodes, exc |-> x.exc]

\* AdvancedCurve.iterate after base_solve.iterate() that leaves not_iterated set
AdoptKeepFlag(self, base) ==
    [self EXCEPT !.nodes = base.nodes, !.algo = "gauss_newton"]
\* AdvancedCurve.iterate after base_solve.iterate(): adopt its nodes, clear the
\* flag, switch to gauss_newton
Adopt(self, base) ==
    [self EXCEPT !.nodes = base.nodes, !.not_iterated = FALSE, !.algo = "gauss_newton"]

\* AdvancedCurve.iterate(): every [o, exc, runs, based] it can end in; based tells
\* whether base_solve.iterate() returned
AdvancedIterate(self) ==
    IF self.not_iterated
    THEN LET base == SolvedCurve(self.nodes, self.swaps, self.obj_rates, self.algo, self.W)
         IN  UNION {
               IF b.exc # NoExc
               THEN {[o |-> self, exc |-> b.exc, runs |-> <<Run("base", 0, base, b)>>,
                      based |-> FALSE]}
               ELSE LET self1 == Adopt(self, b.o)
                    IN  { [o |-> x.o, exc |-> x.exc,
                           runs |-> <<Run("base", 0, base, b), Run("self", 0, self1, x)>>,
                           based |-> TRUE] : x \in SolvedIterate(self1, DefaultMaxI) }
               : b \in SolvedIterate(base, DefaultMaxI) }
    ELSE { [o |-> x.o, exc |-> x.exc, runs |-> <<Run("self", 0, self, x)>>,
            based |-> FALSE] : x \in SolvedIterate(self, DefaultMaxI) }

\* s_cv_fwd.iterate() / s_cv_bck.iterate(): the copies are of the curve's own
\* type, with not_iterated cleared
CopyIterate(copy) ==
    IF copy.kind = "AdvancedCurve"
    THEN { [o |-> x.o, exc |-> x.exc] : x \in AdvancedIterate(copy) }
    ELSE SolvedIterate(copy, DefaultMaxI)

Shift(s, j, d) == [s EXCEPT ![j] = @ + d]

\* the top of the loop body with s_cv_fwd.s bound to self.s itself, not a copy
GradRoundSetupAliased(c, j) ==
    [self |-> [c.self EXCEPT !.s = Shift(c.self.s, j, Ds)],
     fwd |-> [c.fwd EXCEPT !.nodes = c.self.nodes, !.s = Shift(c.self.s, j, Ds)],
     bck |-> [c.bck EXCEPT !.nodes = c.self.nodes, !.s = Shift(c.self.s, j, -Ds)]]
\* the top of the loop body of grad_s_v_numeric: both copies restart from the
\* curve's nodes and quotes, quote j shifted by +ds and -ds
GradRoundSetup(c, j) ==
    [self |-> c.self,
     fwd |-> [c.fwd EXCEPT !.nodes = c.self.nodes, !.s = Shift(c.self.s, j, Ds)],
     bck |-> [c.bck EXCEPT !.nodes = c.self.nodes, !.s = Shift(c.self.s, j, -Ds)]]

Zeros(m, n) == [j \in 1..m |-> [i \in 1..n |-> 0]]

\* (dvds_fwd - dvds_bck) / 2, kept as its double
GradRow(self, fwd, bck) ==
    [i \in 1..self.n |-> ((fwd.v[i] - self.v[i]) \div Ds) - ((bck.v[i] - self.v[i]) \div Ds)]

\* grad_s_v[s, :] = row
WriteRow(M, j, row) == [M EXCEPT ![j] = row]

\* what a solve of a copy leaves for grad_s_v_numeric to read: its v, or the
\* exception it raised
CopyOutcomes(copy) == { [v |-> x.o.v, exc |-> x.exc] : x \in CopyIterate(copy) }

\* round j of the loop of grad_s_v_numeric, from the curve and its two copies c:
\* every [self, row, exc, runs] it can end in (row is <<>> when it raised)
GradRound(c, j) ==
    LET c1 == GradRoundSetup(c, j)
        F == CopyOutcomes(c1.fwd)
        B == CopyOutcomes(c1.bck)
        RunF(xf) == [who |-> "fwd", round |-> j, algo |-> c1.fwd.algo,
                     nodes_in |-> c1.fwd.nodes, s_in |-> c1.fwd.s,
                     v_out |-> xf.v, nodes_out |-> <<>>, exc |-> xf.exc]
        RunB(xb) == [who |-> "bck", round |-> j, algo |-> c1.bck.algo,
                     nodes_in |-> c1.bck.nodes, s_in |-> c1.bck.s,
                     v_out |-> xb.v, nodes_out |-> <<>>, exc |-> xb.exc]
    IN  { [self |-> c1.self, row |-> <<>>, exc |-> xf.exc, runs |-> <<RunF(xf)>>] :
          xf \in { x \in F : x.exc # NoExc } }
        \cup
        { [self |-> c1.self,
           row |-> IF xb.exc # NoExc \/ c1.self.v = <<>> THEN <<>>
                   ELSE GradRow(c1.self, xf, xb),
           exc |-> IF xb.exc # NoExc THEN xb.exc
                   ELSE IF c1.self.v = <<>>
                   THEN Exc("AttributeError", "grad_s_v_numeric") ELSE NoExc,
           runs |-> <<RunF(xf), RunB(xb)>>] :
          xf \in { x \in F : x.exc = NoExc }, xb \in B }

\* rounds j .. m of the loop of grad_s_v_numeric continuing the partial results P:
\* every [self, G, exc, runs] they can end in.  A copy enters a round as its last
\* iterate() left it, but for nodes and s, which the round resets; of the rest a
\* later iterate() reads only lam, which the return of the last one reset.
RECURSIVE GradRounds(_, _, _)
GradRounds(c, j, P) ==
    IF j > c.self.m THEN P
    ELSE GradRounds(c, j + 1,
            { p \in P : p.exc # NoExc }
            \cup UNION { { [self |-> y.self,
                            G |-> IF y.exc = NoExc THEN WriteRow(p.G, j, y.row) ELSE p.G,
                            exc |-> y.exc, runs |-> p.runs \o y.runs] :
                           y \in GradRound([c EXCEPT !.self = p.self], j) } :
                         p \in { q \in P : q.exc = NoExc } })

\* grad_s_v_numeric: the two copies, the rounds, then self.grad_s_v_ = grad_s_v
GradNumeric(self) ==
    LET copy == [NewLike(self, self.nodes, self.swaps, self.obj_rates,
                         "gauss_newton", self.W) EXCEPT !.not_iterated = FALSE]
    IN  { [o |-> IF y.exc = NoExc THEN [y.self EXCEPT !.grad_s_v_ = y.G] ELSE y.self,
           exc |-> y.exc, runs |-> y.runs] :
          y \in GradRounds([self |-> self, fwd |-> copy, bck |-> copy], 1,
                           {[self |-> self, G |-> Zeros(self.m, self.n), exc |-> NoExc,
                             runs |-> <<>>]}) }

\* ---- the state machine --------------------------------------------------------
Weights(l) == [j \in 1..l |-> j]

\* the caller's quotes, one per swap
Quotes(m) == [j \in 1..m |-> 0]

\* the caller's initial nodes: the anchor at 1.0 (ValMax), a guess for the others
InitNodes(n, guess) ==
    [i \in 1..(n + 1) |-> [k |-> i - 1, v |-> IF i = 1 THEN ValMax ELSE guess[i - 1]]]

Snapshot(o) ==
    [nodes |-> o.nodes, s |-> o.s, obj_rates |-> o.obj_rates,
     not_iterated |-> o.not_iterated, cached |-> o.grad_s_v_ # None]

Result(x) == IF x.exc # NoExc THEN "raised" ELSE x.o.ret

Init ==
    /\ op = "off" /\ arg = NoArg /\ out = NoOut
    /\ \E kind \in {"SolvedCurve", "AdvancedCurve"}, n \in 1..MaxN, m \in 1..MaxM,
          algo \in Algos :
         /\ n * m <= MaxCells
         /\ \E guess \in [1..n -> Val], w \in {None} \cup { Weights(l) : l \in 1..MaxM } :
              LET self == IF kind = "AdvancedCurve"
                          THEN AdvancedCurve(InitNodes(n, guess), m, Quotes(m), algo, w)
                          ELSE SolvedCurve(InitNodes(n, guess), m, Quotes(m), algo, w)
              IN  /\ curve = self
                  /\ last = [call |-> "none", max_i |-> 0, result |-> "none",
                             exc |-> NoExc, runs |-> <<>>, pre |-> Snapshot(self)]
                  /\ hist = [algo0 |-> algo, base_solves |-> 0, grad_nodes |-> <<>>]

\* SolvedCurve.iterate(max_i) on a SolvedCurve
CallIterate ==
    /\ curve.kind = "SolvedCurve"
    /\ \E max_i \in 0..MaxIter :
         \E x \in SolvedIterate(curve, max_i) :
            /\ curve' = x.o
            /\ last' = [call |-> "iterate", max_i |-> max_i, result |-> Result(x),
                        exc |-> x.exc, runs |-> <<Run("self", 0, curve, x)>>,
                        pre |-> Snapshot(curve)]
    /\ UNCHANGED <<hist, dateVars>>

\* AdvancedCurve.iterate()
CallIterateAdvanced ==
    /\ curve.kind = "AdvancedCurve"
    /\ \E x \in AdvancedIterate(curve) :
         /\ curve' = x.o
         /\ last' = [call |-> "iterate", max_i |-> DefaultMaxI, result |-> Result(x),
                     exc |-> x.exc, runs |-> x.runs, pre |-> Snapshot(curve)]
         /\ hist' = [hist EXCEPT !.base_solves = IF x.based THEN @ + 1 ELSE @]
    /\ UNCHANGED dateVars

\* the property grad_s_v with the matrix cached
ReadGradCached ==
    /\ curve.grad_s_v_ # None
    /\ last' = [call |-> "grad_s_v", max_i |-> 0, result |-> "matrix", exc |-> NoExc,
                runs |-> <<>>, pre |-> Snapshot(curve)]
    /\ UNCHANGED <<curve, hist, dateVars>>

\* the property grad_s_v with no matrix yet: grad_s_v_numeric
ReadGradCompute ==
    /\ curve.grad_s_v_ = None
    /\ \E y \in GradNumeric(curve) :
         /\ curve' = y.o
         /\ last' = [call |-> "grad_s_v", max_i |-> 0,
                     result |-> IF y.exc = NoExc THEN "matrix" ELSE "raised",
                     exc |-> y.exc, runs |-> y.runs, pre |-> Snapshot(curve)]
         /\ hist' = [hist EXCEPT !.grad_nodes =
                        IF y.exc = NoExc THEN curve.nodes ELSE @]
    /\ UNCHANGED dateVars

Next ==
    \/ CallIterate
    \/ CallIterateAdvanced
    \/ ReadGradCached
    \/ ReadGradCompute

Spec == Init /\ [][Next]_vars

(***************************************************************************)
(* Claims about the date functions (checked under SpecDates).              *)
(***************************************************************************)
Min(a, b) == IF a <= b THEN a ELSE b

\* the date the claim describes: floor division for the year, the month wrapped
\* into 1..12, the largest valid day not after d.day
ClaimedAddMonths(d, n) ==
    LET y == d.year + ((d.month + n - 1) \div 12)
        m == ((d.month + n - 1) % 12) + 1
    IN  MkDate(y, m, Min(d.day, DaysInMonth(y, m)))

\* C6: for every valid date d and every integer offset n, add_months(d, n) returns
\* the date whose year is d.year + floor((d.month + n - 1) / 12), whose month is
\* d.month + n wrapped into 1..12 and whose day is the largest valid day <= d.day.
C6_AddMonthsIsFlooredMonthEnd ==
    op = "add_months" => out.ret = ClaimedAddMonths(arg.start, arg.tenor)

\* The same statement restricted to offsets that do not reach before January of
\* the start year (d.month + n >= 1), where truncation and floor agree.
AddMonthsFromJanuaryOn ==
    (op = "add_months" /\ arg.start.month + arg.tenor >= 1)
        => out.ret = ClaimedAddMonths(arg.start, arg.tenor)

\* the month-end retry is taken: 31 January plus one month
AddMonthsMonthEndReached ==
    /\ op = "add_months" /\ arg.start.day = 31 /\ arg.start.month = 1 /\ arg.tenor = 1
    /\ out.ret.month = 2 /\ out.ret.day \in {28, 29}

\* C7: Schedule.data is a list of exactly n_periods = ceil(tenor / period)
\* contiguous intervals: the first starts at start, each starts where the previous
\* one ends, each of the first n_periods - 1 ends at add_op(its own start, period),
\* the last ends at add_op(start, tenor), and each year fraction is the interval's
\* length in days over 365.
C7_ScheduleIsContiguous ==
    op = "Schedule" =>
        LET data == out.data
            k == Len(data)
        IN  /\ k * arg.period >= arg.tenor /\ (k - 1) * arg.period < arg.tenor
            /\ k = out.n_periods
            /\ data[1][1] = arg.start
            /\ \A i \in 2..k : data[i][1] = data[i - 1][2]
            /\ \A i \in 1..(k - 1) : data[i][2] = AddOp(arg.days, data[i][1], arg.period)
            /\ data[k][2] = AddOp(arg.days, arg.start, arg.tenor)
            /\ \A i \in 1..k :
                  data[i][3] = [days |-> ToOrdinal(data[i][2]) - ToOrdinal(data[i][1]),
                                conv |-> 365]

\* a months-mode schedule from a month end with three or more periods and a stub
C7_StubScheduleReached ==
    /\ op = "Schedule" /\ ~arg.days /\ arg.start.day = 31
    /\ Len(out.data) >= 3 /\ arg.tenor % arg.period # 0
    /\ out.data[Len(out.data)][3].days < out.data[1][3].days

(***************************************************************************)
(* Claims about the solver (checked under Spec).                           *)
(***************************************************************************)
IterateCalled == last.call = "iterate"
IterateReturned == last.call = "iterate" /\ last.exc = NoExc
GradRead == last.call = "grad_s_v"
LastRun == last.runs[Len(last.runs)]

\* C1: over iterate() of a SolvedCurve or an AdvancedCurve (any algorithm, any
\* max_i, converged or not, returned or raised) the value of node 0 is after the
\* call what it was before it, and the node dates and their order are unchanged.
C1_AnchorAndDatesKept ==
    IterateCalled =>
        /\ curve.nodes[1] = last.pre.nodes[1]
        /\ Keys(curve.nodes) = Keys(last.pre.nodes)
        /\ \A i \in 1..Len(last.runs) :
              /\ last.runs[i].nodes_out[1] = last.runs[i].nodes_in[1]
              /\ Keys(last.runs[i].nodes_out) = Keys(last.pre.nodes)

\* an iterate() that converged after it rewrote the free nodes
C1_NodesRewritten ==
    /\ IterateReturned /\ last.result = "tolerance"
    /\ Tail1(Values(curve.nodes)) # Tail1(Values(last.pre.nodes))

\* the convergence test at entry j of an objective history
SmallDecreaseAt(fl, j) ==
    LET prev == IF j = 1 THEN FPrevInit ELSE fl[j - 1]
    IN  0 < prev - fl[j] /\ prev - fl[j] < Tol

\* C2: iterate returns "tolerance reached" at the first pass whose objective is
\* below the previous one (the sentinel on the first pass) by less than tol, and
\* never otherwise.
C2_ToleranceIffFirstSmallDecrease ==
    IterateReturned =>
        LET fl == curve.f_list
            k == Len(fl)
        IN  /\ last.result = "tolerance" => (k >= 1 /\ SmallDecreaseAt(fl, k))
            /\ last.result = "max" => (k = 0 \/ ~SmallDecreaseAt(fl, k))
            /\ \A j \in 1..(k - 1) : ~SmallDecreaseAt(fl, j)

\* an iterate() that reached the tolerance on its second pass
C2_ConvergedOnSecondPass ==
    IterateReturned /\ last.result = "tolerance" /\ Len(curve.f_list) = 2

\* C3: for every max_i, when no pass of the loop raises, SolvedCurve.iterate
\* returns a status string after at most max_i objective evaluations, "max
\* iterations" when the limit is exhausted, with the nodes as the last update
\* step wrote them.
C3_StatusWithinMaxI ==
    (IterateCalled /\ curve.kind = "SolvedCurve"
        /\ last.exc.site \notin {"calculate_metrics", "update_step"})
    =>  /\ last.result \in {"tolerance", "max"}
        /\ Len(curve.f_list) <= last.max_i
        /\ (last.result = "max" /\ curve.v_1 # <<>>)
              => Tail1(Values(curve.nodes)) = curve.v_1

\* C4: a read of grad_s_v after a later iterate() returns the matrix computed from
\* the node values that iterate() produced: whenever a read returns, the matrix
\* was computed from the curve's current nodes.
C4_GradReadUsesCurrentNodes ==
    (GradRead /\ last.result = "matrix") => hist.grad_nodes = curve.nodes

GaussNewtonOrLM(algo) == algo \in {"gauss_newton", "levenberg_marquardt"}

\* a pass of the loop reached the update step: the objective was computed, and the
\* first pass cannot meet the tolerance against the sentinel
UpdateStepReached ==
    /\ IterateCalled /\ Len(curve.f_list) >= 1
    /\ last.exc.site # "calculate_metrics"

\* C5 as stated: with n # m the gauss_newton and levenberg_marquardt update steps
\* fail with a dimension error and return no node vector.
C5_UnequalSizesFail ==
    (UpdateStepReached /\ GaussNewtonOrLM(LastRun.algo) /\ LastRun.who = "self"
        /\ curve.n # curve.m)
    =>  /\ last.exc = Exc("ValueError", "update_step")
        /\ curve.v_1 = <<>>

\* C5 as amended: for every n and m the gauss_newton and levenberg_marquardt update
\* steps solve an n x n system against an n x 1 right-hand side: they raise no
\* dimension error, and what they return is a vector of n node values; the only
\* exception they raise is that of the linear solve.
C5_UpdateStepShapesConform ==
    (UpdateStepReached /\ GaussNewtonOrLM(LastRun.algo) /\ LastRun.who = "self")
    =>  /\ last.exc.site = "update_step" => last.exc.err = "LinAlgError"
        /\ curve.v_1 # <<>> => Len(curve.v_1) = curve.n
        /\ last.exc = NoExc => curve.v_1 # <<>>

\* gauss_newton returned node values with more swaps than free nodes, and
\* with fewer
C5_UnequalSizesUpdated ==
    /\ IterateReturned /\ LastRun.algo = "gauss_newton" /\ LastRun.who = "self"
    /\ curve.n # curve.m /\ curve.W # None
    /\ curve.v_1 # <<>> /\ curve.v_1 # Tail1(Values(last.pre.nodes))

\* C8: over the iterate() calls on one AdvancedCurve the base solve runs once: the
\* first call runs it, with the configured algorithm, before any spline-stage pass
\* and adopts its nodes; every later call skips it; every spline-stage solve uses
\* gauss_newton.
C8_BaseSolveOnce ==
    curve.kind = "AdvancedCurve" =>
        /\ hist.base_solves <= 1
        /\ (hist.base_solves = 1) <=> ~curve.not_iterated
        /\ IterateCalled =>
              /\ \A i \in 1..Len(last.runs) :
                    /\ last.runs[i].who = "base"
                          => /\ i = 1 /\ last.pre.not_iterated
                             /\ last.runs[i].algo = hist.algo0
                    /\ last.runs[i].who = "self"
                          => /\ last.runs[i].algo = "gauss_newton"
                             /\ hist.base_solves = 1
                             /\ i = 2 => last.runs[i].nodes_in = last.runs[1].nodes_out
              /\ last.pre.not_iterated => last.runs[1].who = "base"
              /\ ~last.pre.not_iterated
                    => (Len(last.runs) = 1 /\ last.runs[1].who = "self")
              /\ last.exc = NoExc => hist.base_solves = 1

\* a later iterate() on an AdvancedCurve configured with levenberg_marquardt
C8_LaterCallSkipsBase ==
    /\ curve.kind = "AdvancedCurve" /\ hist.algo0 = "levenberg_marquardt"
    /\ IterateReturned /\ ~last.pre.not_iterated
    /\ Len(last.runs) = 1 /\ curve.algo = "gauss_newton"

\* C9: computing grad_s_v leaves the curve's nodes, s and obj_rates unchanged; in
\* round j the forward and backward solves start from the curve's nodes and from
\* s with entry j shifted by +ds and -ds; row j of the matrix is the result of
\* round j alone.
C9_GradLeavesCurveAlone ==
    GradRead =>
        /\ curve.nodes = last.pre.nodes
        /\ curve.s = last.pre.s
        /\ curve.obj_rates = last.pre.obj_rates
        /\ \A i \in 1..Len(last.runs) :
              LET run == last.runs[i]
                  sign == IF i % 2 = 1 THEN 1 ELSE -1
              IN  /\ run.round = (i + 1) \div 2
                  /\ run.who = (IF i % 2 = 1 THEN "fwd" ELSE "bck")
                  /\ run.nodes_in = last.pre.nodes
                  /\ run.s_in = [q \in 1..curve.m |->
                                   last.pre.s[q] + (IF q = run.round THEN sign * Ds ELSE 0)]
        /\ (last.result = "matrix" /\ ~last.pre.cached) =>
              /\ Len(last.runs) = 2 * curve.m
              /\ Len(curve.grad_s_v_) = curve.m
              /\ \A j \in 1..curve.m :
                    curve.grad_s_v_[j] =
                        [i \in 1..curve.n |->
                            last.runs[2 * j - 1].v_out[i] - last.runs[2 * j].v_out[i]]
        /\ last.pre.cached => (last.runs = <<>> /\ last.result = "matrix")

\* a matrix of two rows computed, the rows different
C9_TwoRowsComputed ==
    /\ GradRead /\ last.result = "matrix" /\ ~last.pre.cached
    /\ curve.m = 2 /\ curve.grad_s_v_[1] # curve.grad_s_v_[2]
    /\ curve.grad_s_v_[2] # <<0>>

\* C10: whenever iterate returns, by either outcome, the scratch v, r and f are
\* those of the node values now in the curve.
C10_ScratchMatchesNodes ==
    IterateReturned =>
        /\ curve.v = Tail1(Values(curve.nodes))
        /\ curve.r = [j \in 1..curve.m |-> SwapRate(j, curve.nodes)]
        /\ curve.f = Objective(curve, [j \in 1..curve.m |-> SwapRate(j, curve.nodes)])

====
